---- MODULE Spec2Model ----
(***************************************************************************)
(* PubMed E-utilities proxy (app.py): the three fetchers pubmed_search,     *)
(* pubmed_summary, pubmed_abstract, the retrying HTTP helpers _get_json /   *)
(* _get_text, and the merge pipeline pubmed_search_and_fetch.               *)
(*                                                                         *)
(* One search_and_fetch request is modelled.  The upstream service is the  *)
(* environment: for each of its three operations it holds the body it      *)
(* answers with and the number of leading attempts that fail.              *)
(*                                                                         *)
(* Representation.  JSON objects are functions over string keys (a key     *)
(* that is absent is outside DOMAIN); Python None is the string Null.      *)
(* The efetch payload is a sequence of tokens, each token a whole tag, a   *)
(* run of digits, a run of whitespace or a run of other text; text         *)
(* extracted from it is a sequence of such tokens, so the empty string     *)
(* extracted from markup is << >>.                                         *)
(* Upstream JSON is well typed (idlist/uids are lists, count is a decimal  *)
(* string); the backoff delay between attempts is not modelled.            *)
(***************************************************************************)
EXTENDS Integers, Sequences, FiniteSets, TLC

\* ------------------------------------------------------------------ bounds
MaxUids == 3          \* longest uid list an esummary body carries
MaxChunks == 2        \* most blocks concatenated into an efetch payload (merge runs)
MaxParseChunks == 3   \* most blocks concatenated into an efetch payload (parse runs)

\* stop_after_attempt(3) on _get_json and _get_text
MaxAttempts == 3

Null == "<None>"
EmptyText == << >>

Endpoints == {"search", "summary", "abstract"}

\* F(x) with x evaluated once: x is bound as the element of a singleton set
Once(F(_), x) == CHOOSE r \in {F(v) : v \in {x}} : TRUE

\* ------------------------------------------------------------ dict helpers
\* d.get(k, default)
Get(d, k, default) == IF k \in DOMAIN d THEN d[k] ELSE default

\* Python truthiness of a value fetched with .get(): None and "" are falsy
Truthy(v) == v # Null /\ v # ""

\* int() of a decimal digit sequence: the value of its first n digits
RECURSIVE DigitsValue(_, _)
DigitsValue(ds, n) == IF n = 0 THEN 0 ELSE 10 * DigitsValue(ds, n - 1) + ds[n]
ParseInt(ds) == DigitsValue(ds, Len(ds))

\* ",".join(pmids): the ids with a "," token between neighbours
JoinComma(xs) ==
    IF xs = << >> THEN << >>
    ELSE [i \in 1..(2 * Len(xs) - 1) |-> IF i % 2 = 1 THEN xs[(i + 1) \div 2] ELSE ","]

\* ------------------------------------------------------- markup scanning
ArticleOpen == "<PubmedArticle>"
ArticleClose == "</PubmedArticle>"
TitleOpen == "<ArticleTitle>"
TitleClose == "</ArticleTitle>"
AbstractOpens == {"<AbstractText>", "<AbstractText Label=BACKGROUND>", "<AbstractText Label=RESULTS>"}
AbstractClose == "</AbstractText>"
PmidOpens == {"<PMID>", "<PMID Version=1>"}
PmidClose == "</PMID>"
OtherTags == {"<i>", "</i>", "<MedlineCitation>", "</MedlineCitation>", "<PubmedArticleSet>", "</PubmedArticleSet>"}
Tags == {ArticleOpen, ArticleClose, TitleOpen, TitleClose, AbstractClose, PmidClose}
            \cup AbstractOpens \cup PmidOpens \cup OtherTags
DigitTokens == {"1", "2", "3"}
Whitespace == {" "}

Min(S) == CHOOSE x \in S : \A y \in S : x <= y
Max(S) == CHOOSE x \in S : \A y \in S : y <= x

\* the left-to-right scan for r"<open>(.*?)<close>" is inside a match at position i
\* when an opening marker before i has no closing marker between it and i
InsideMatch(s, opens, close, i) ==
    \E o \in 1..(i - 1) : s[o] \in opens /\ \A c \in (o + 1)..(i - 1) : s[c] # close

\* positions where a match of r"<open>(.*?)<close>" starts: an opening marker met
\* outside a match, with a closing marker somewhere after it
MatchStarts(s, opens, close) ==
    {i \in 1..Len(s) : /\ s[i] \in opens
                        /\ ~InsideMatch(s, opens, close, i)
                        /\ \E c \in (i + 1)..Len(s) : s[c] = close}

\* re.findall(r"<open>(.*?)<close>", s, flags=re.S): the captured groups, left to
\* right; each match ends at the first closing marker after its start
Groups(s, close, starts) ==
    [k \in 1..Cardinality(starts) |->
        LET i == CHOOSE x \in starts : Cardinality({y \in starts : y < x}) = k - 1
            j == Min({c \in (i + 1)..Len(s) : s[c] = close})
        IN SubSeq(s, i + 1, j - 1)]
FindAll(s, opens, close) ==
    Once(LAMBDA starts : Groups(s, close, starts), MatchStarts(s, opens, close))

\* re.search(r"<open>(.*?)<close>", s, flags=re.S): << >> if no match, else <<group(1)>>
SearchFirst(s, opens, close) ==
    LET all == FindAll(s, opens, close)
    IN IF all = << >> THEN << >> ELSE <<all[1]>>

\* re.sub(r"<.*?>", "", text)
StripTags(text) == SelectSeq(text, LAMBDA t : t \notin Tags)

\* str.strip(): what lies between the first and the last non-whitespace token
Strip(text) ==
    LET inked == {i \in 1..Len(text) : text[i] \notin Whitespace}
    IN IF inked = {} THEN << >> ELSE SubSeq(text, Min(inked), Max(inked))

\* "".join(captures): the first n captures, concatenated
RECURSIVE ConcatFirst(_, _)
ConcatFirst(parts, n) == IF n = 0 THEN << >> ELSE ConcatFirst(parts, n - 1) \o parts[n]
Concat(parts) == ConcatFirst(parts, Len(parts))

\* re.search(r"<PMID.*?>(\d+)</PMID>", art): "<PMID", then as little as possible up
\* to a ">" that is directly followed by digits and "</PMID>"; "" if no match
SearchPmid(art) ==
    LET ends(i) == {j \in i..(Len(art) - 2) :
                        /\ art[j] \in Tags
                        /\ art[j + 1] \in DigitTokens
                        /\ art[j + 2] = PmidClose}
        starts == {i \in 1..Len(art) : art[i] \in PmidOpens /\ ends(i) # {}}
    IN IF starts = {} THEN ""
       ELSE art[Min(ends(Min(starts))) + 1]

\* body of the loop over record segments in pubmed_abstract
ParseArticle(art) ==
    LET title == SearchFirst(art, {TitleOpen}, TitleClose)
        abstr == Concat(FindAll(art, AbstractOpens, AbstractClose))
    IN [pmid |-> SearchPmid(art),
        title |-> IF title # << >> THEN Strip(StripTags(title[1])) ELSE EmptyText,
        abstract |-> Strip(StripTags(abstr))]

\* variant: a segment without an id is skipped
MapParseIdentified(arts) ==
    SelectSeq([i \in 1..Len(arts) |-> Once(ParseArticle, arts[i])], LAMBDA a : a.pmid # "")

\* the loop over the record segments: one articles.append per segment
MapParse(arts) == [i \in 1..Len(arts) |-> Once(ParseArticle, arts[i])]

\* the record segments of the payload
Segments(xml) == FindAll(xml, {ArticleOpen}, ArticleClose)

\* articles list built by pubmed_abstract
Articles(xml) == Once(MapParse, Segments(xml))

\* variant: an empty article list is returned like any other
NeverNoArticles(articles) == FALSE

\* raise HTTPException(404) when no article was parsed ("if not articles")
NoArticles(articles) == articles = << >>

\* pubmed_abstract applied to the efetch payload
AbstractResult(articles) ==
    IF NoArticles(articles)
    THEN [ok |-> FALSE,
          error |-> [type |-> "HTTPException", status |-> 404, step |-> "abstract"]]
    ELSE [ok |-> TRUE, value |-> [records |-> articles]]
PubmedAbstract(xml) == Once(AbstractResult, Articles(xml))

\* ------------------------------------------------------------- esearch
\* the part of pubmed_search after the GET
PubmedSearch(data, q) ==
    LET res == Get(data, "esearchresult", << >>)
    IN [count |-> ParseInt(Get(res, "count", <<0>>)),
        pmids |-> Get(res, "idlist", << >>),
        query |-> q]

\* ------------------------------------------------------------ esummary
\* [a.get("name") for a in item.get("authors", []) if a.get("name")]
AuthorNames(authors) ==
    SelectSeq([i \in 1..Len(authors) |-> Get(authors[i], "name", Null)], Truthy)

\* x or y
Or(x, y) == IF Truthy(x) THEN x ELSE y

\* the dict appended for one uid in pubmed_summary
SummaryRecord(uid, item) ==
    [pmid |-> uid,
     title |-> Get(item, "title", Null),
     journal |-> Or(Get(item, "fulljournalname", Null), Get(item, "source", Null)),
     pubdate |-> Get(item, "pubdate", Null),
     authors |-> AuthorNames(Get(item, "authors", << >>)),
     doi |-> Or(Get(item, "elocationid", Null), "")]

\* variant: a uid listed without a detail object is skipped
SummaryRecordsWithDetail(uids, result) ==
    LET listed == SelectSeq(uids, LAMBDA u : u \in DOMAIN result)
    IN [i \in 1..Len(listed) |-> SummaryRecord(listed[i], result[listed[i]])]

\* the loop over uids: one result.append per listed uid
SummaryRecords(uids, result) ==
    [i \in 1..Len(uids) |-> SummaryRecord(uids[i], Get(result, uids[i], << >>))]

\* the part of pubmed_summary after the GET
PubmedSummary(data) ==
    LET result == Get(data, "result", << >>)
    IN [records |-> SummaryRecords(Get(result, "uids", << >>), result)]

\* --------------------------------------------------------------- merge
\* abs_map = {a["pmid"]: a for a in abstr["records"]}: a later record replaces an
\* earlier one with the same pmid
\* variant: the first record with a pmid is kept
AbsMapFirstWins(records) ==
    [k \in {records[i].pmid : i \in 1..Len(records)} |->
        records[Min({i \in 1..Len(records) : records[i].pmid = k})]]

AbsMap(records) ==
    [k \in {records[i].pmid : i \in 1..Len(records)} |->
        records[Max({i \in 1..Len(records) : records[i].pmid = k})]]

\* {**rec, "abstract": abs_map.get(pmid, {}).get("abstract", "")}
MergeOne(rec, absMap) ==
    LET a == Get(Get(absMap, rec.pmid, << >>), "abstract", EmptyText)
    IN [k \in DOMAIN rec \cup {"abstract"} |-> IF k = "abstract" THEN a ELSE rec[k]]

\* the loop over summ["records"]
\* variant: only records with an abstract are kept
MergeLoopMatched(summRecords, absMap) ==
    LET matched == SelectSeq(summRecords, LAMBDA r : r.pmid \in DOMAIN absMap)
    IN [i \in 1..Len(matched) |-> MergeOne(matched[i], absMap)]

MergeLoop(summRecords, absMap) ==
    [i \in 1..Len(summRecords) |-> MergeOne(summRecords[i], absMap)]

MergeRecords(summRecords, absRecords) == MergeLoop(summRecords, AbsMap(absRecords))

\* ------------------------------------------------------- upstream bodies
Ids == {"1", "2", "3"}

\* all sequences over S of length at most n
RECURSIVE SeqsUpTo(_, _)
SeqsUpTo(S, n) ==
    IF n = 0 THEN {<< >>}
    ELSE LET shorter == SeqsUpTo(S, n - 1)
         IN shorter \cup {Append(s, x) : s \in {t \in shorter : Len(t) = n - 1}, x \in S}

\* concatenations of at most n blocks
RECURSIVE Payloads(_, _)
Payloads(blocks, n) ==
    IF n = 0 THEN {<< >>}
    ELSE LET shorter == Payloads(blocks, n - 1)
         IN shorter \cup {p \o b : p \in shorter, b \in blocks}

SearchBody(idlist, count) == [esearchresult |-> [idlist |-> idlist, count |-> count]]

ItemFull ==
    [title |-> "Aspirin in primary prevention", fulljournalname |-> "The Lancet",
     source |-> "Lancet", pubdate |-> "2020 Jan",
     authors |-> <<[name |-> "Doe J"], [authtype |-> "Author"], [name |-> "Roe R"]>>,
     elocationid |-> "doi: 10.1000/x"]
ItemSparse ==
    [title |-> "Influenza", fulljournalname |-> "", source |-> "BMJ",
     authors |-> <<[name |-> ""]>>]

\* esummary body listing uids; uid "3" is listed without a detail object
SummaryBody(uids) ==
    [result |-> [k \in {"uids", "1", "2"} |->
                    CASE k = "uids" -> uids
                      [] k = "1" -> ItemFull
                      [] k = "2" -> ItemSparse]]

Article(inner) == <<ArticleOpen>> \o inner \o <<ArticleClose>>
PmidOf(id) == <<"<PMID Version=1>", id, PmidClose>>
TitleOf(text) == <<TitleOpen>> \o text \o <<TitleClose>>
AbstractOf(open, text) == <<open>> \o text \o <<AbstractClose>>

ArtPlain(id) ==
    Article(PmidOf(id) \o TitleOf(<<" ", "Title", "<i>", "x", "</i>", " ">>)
                \o AbstractOf("<AbstractText>", <<"Plain", id>>))
ArtStructured(id) ==
    Article(<<"<MedlineCitation>">> \o PmidOf(id) \o TitleOf(<<"Title">>)
                \o AbstractOf("<AbstractText Label=BACKGROUND>", <<" ", "Bg">>)
                \o <<" ">>
                \o AbstractOf("<AbstractText Label=RESULTS>", <<"<i>", "Res", "</i>", " ">>)
                \o <<"</MedlineCitation>">>)
ArtOther(id) ==
    Article(PmidOf(id) \o AbstractOf("<AbstractText>", <<"Other", id>>))
ArtNoAbstract(id) == Article(PmidOf(id) \o TitleOf(<<"Title">>))
ArtNoPmid == Article(TitleOf(<<"Title">>) \o AbstractOf("<AbstractText>", <<"Anon">>))
ArtNoTitle(id) == Article(PmidOf(id) \o AbstractOf("<AbstractText>", <<"Plain", id>>))
ArtEmpty == Article(<< >>)
ArtBrokenPmid == Article(<<"<PMID>", "x", PmidClose>> \o TitleOf(<<"Title">>))
ArtUnclosedTitle(id) == Article(PmidOf(id) \o <<TitleOpen, "Title">>)
Unclosed == <<ArticleOpen>> \o PmidOf("2") \o TitleOf(<<"Title">>)
Envelope == <<"<PubmedArticleSet>", " ", "</PubmedArticleSet>">>

\* number of leading attempts that fail, per operation
FailPlans == [Endpoints -> 0..MaxAttempts]
NoFailures == [e \in Endpoints |-> 0]
FewFailPlans ==
    {NoFailures} \cup {[e \in Endpoints |-> IF e = f THEN n ELSE 0] :
                          f \in Endpoints, n \in {1, MaxAttempts}}

\* ------------------------------------------------------------------ state
VARIABLES
    upstream,   \* per operation: body answered, number of leading failing attempts
    query,      \* the caller's query string
    pc,         \* position of the request in pubmed_search_and_fetch
    attempts,   \* HTTP attempts made so far, per operation
    calls,      \* invocations of each fetcher by the pipeline
    last,       \* outcome of the latest attempt, per operation
    srch,       \* result of pubmed_search
    ids,        \* ",".join(srch["pmids"])
    summ,       \* result of pubmed_summary
    abstr,      \* result of pubmed_abstract
    response,   \* dict returned by pubmed_search_and_fetch
    failure     \* exception that left pubmed_search_and_fetch

vars == <<upstream, query, pc, attempts, calls, last, srch, ids, summ, abstr, response, failure>>

Unset == [unset |-> TRUE]
NoFailure == [type |-> "none"]

\* exceptions an attempt of _get_json can end with: the GET, raise_for_status, r.json()
JsonErrors == {"transport", "status", "decode"}
\* exceptions an attempt of _get_text can end with: the GET, raise_for_status
TextErrors == {"transport", "status"}
AttemptErrors(e) == IF e = "abstract" THEN TextErrors ELSE JsonErrors

InitWith(searchBodies, summaryBodies, payloads, plans, queries) ==
    /\ \E sb \in searchBodies, mb \in summaryBodies, xml \in payloads, plan \in plans :
          upstream = [search |-> [body |-> sb, fails |-> plan["search"]],
                      summary |-> [body |-> mb, fails |-> plan["summary"]],
                      abstract |-> [body |-> xml, fails |-> plan["abstract"]]]
    /\ query \in queries
    /\ pc = "start"
    /\ attempts = [e \in Endpoints |-> 0]
    /\ calls = [e \in Endpoints |-> 0]
    /\ last = [e \in Endpoints |-> "none"]
    /\ srch = Unset
    /\ ids = << >>
    /\ summ = Unset
    /\ abstr = Unset
    /\ response = Unset
    /\ failure = NoFailure

\* ---------------------------------------------------------------- retry
\* variant: one attempt more before giving up
StopAfterAttemptLate(n) == n > MaxAttempts

\* stop=stop_after_attempt(3): give up once this many attempts were made
StopAfterAttempt(n) == n >= MaxAttempts

\* the next attempt of operation e raises
AttemptFails(e) == attempts[e] < upstream[e].fails

\* variant: one attempt count shared by all calls of the request
AttemptNumberShared(e) == attempts["search"] + attempts["summary"] + attempts["abstract"] + 1

\* attempt number the retry policy sees: every call of the decorated helper counts
\* its own attempts from 1
AttemptNumber(e) == attempts[e] + 1

\* an attempt raised and the retry policy schedules another one
Retry(e, at) ==
    /\ pc = at
    /\ AttemptFails(e)
    /\ ~StopAfterAttempt(AttemptNumber(e))
    /\ \E err \in AttemptErrors(e) : last' = [last EXCEPT ![e] = err]
    /\ attempts' = [attempts EXCEPT ![e] = @ + 1]
    /\ UNCHANGED <<upstream, query, pc, calls, srch, ids, summ, abstr, response, failure>>

\* variant: a failed Search is swallowed and the pipeline goes on
OnErrorSwallowSearch(e) == IF e = "search" THEN "esummary" ELSE "failed"

\* try/except around the fetchers in pubmed_search_and_fetch: there is none, an
\* exception of any step leaves the handler
OnError(e) == "failed"

\* an attempt raised and the retry policy gives up: RetryError leaves the fetcher
Exhausted(e, at) ==
    /\ pc = at
    /\ AttemptFails(e)
    /\ StopAfterAttempt(AttemptNumber(e))
    /\ attempts' = [attempts EXCEPT ![e] = @ + 1]
    /\ \E err \in AttemptErrors(e) :
          /\ last' = [last EXCEPT ![e] = err]
          /\ IF OnError(e) = "failed"
             THEN failure' = [type |-> "RetryError", step |-> e, cause |-> err]
             ELSE failure' = failure
    /\ pc' = OnError(e)
    /\ UNCHANGED <<upstream, query, calls, srch, ids, summ, abstr, response>>

\* --------------------------------------------------------------- pipeline
\* pubmed_search_and_fetch is entered and calls pubmed_search
Begin ==
    /\ pc = "start"
    /\ pc' = "esearch"
    /\ calls' = [calls EXCEPT !["search"] = @ + 1]
    /\ UNCHANGED <<upstream, query, attempts, last, srch, ids, summ, abstr, response, failure>>

\* variant: the short-circuit tests the count
ShortCircuitOnCount(s) == s.count = 0

\* if not srch["pmids"]
ShortCircuit(s) == s.pmids = << >>

\* esearch answers; no ids: the handler returns at once
SearchOkEmpty ==
    /\ pc = "esearch"
    /\ ~AttemptFails("search")
    /\ \E s \in {PubmedSearch(upstream["search"].body, query)} :
          /\ ShortCircuit(s)
          /\ srch' = s
          /\ response' = [count |-> s.count, records |-> << >>]
    /\ attempts' = [attempts EXCEPT !["search"] = @ + 1]
    /\ last' = [last EXCEPT !["search"] = "ok"]
    /\ pc' = "done"
    /\ UNCHANGED <<upstream, query, calls, ids, summ, abstr, failure>>

\* esearch answers with ids: the handler joins them and calls pubmed_summary
SearchOkIds ==
    /\ pc = "esearch"
    /\ ~AttemptFails("search")
    /\ \E s \in {PubmedSearch(upstream["search"].body, query)} :
          /\ ~ShortCircuit(s)
          /\ srch' = s
          /\ ids' = JoinComma(s.pmids)
    /\ attempts' = [attempts EXCEPT !["search"] = @ + 1]
    /\ last' = [last EXCEPT !["search"] = "ok"]
    /\ calls' = [calls EXCEPT !["summary"] = @ + 1]
    /\ pc' = "esummary"
    /\ UNCHANGED <<upstream, query, summ, abstr, response, failure>>

\* esummary answers: the handler calls pubmed_abstract
SummaryOk ==
    /\ pc = "esummary"
    /\ ~AttemptFails("summary")
    /\ summ' = PubmedSummary(upstream["summary"].body)
    /\ attempts' = [attempts EXCEPT !["summary"] = @ + 1]
    /\ last' = [last EXCEPT !["summary"] = "ok"]
    /\ calls' = [calls EXCEPT !["abstract"] = @ + 1]
    /\ pc' = "efetch"
    /\ UNCHANGED <<upstream, query, srch, ids, abstr, response, failure>>

\* efetch answers but no article is parsed: HTTPException(404) leaves the handler
AbstractNotFound ==
    /\ pc = "efetch"
    /\ ~AttemptFails("abstract")
    /\ \E a \in {PubmedAbstract(upstream["abstract"].body)} :
          /\ ~a.ok
          /\ failure' = a.error
    /\ attempts' = [attempts EXCEPT !["abstract"] = @ + 1]
    /\ last' = [last EXCEPT !["abstract"] = "ok"]
    /\ pc' = "failed"
    /\ UNCHANGED <<upstream, query, calls, srch, ids, summ, abstr, response>>

\* efetch answers with articles: the handler merges and returns
AbstractOk ==
    /\ pc = "efetch"
    /\ ~AttemptFails("abstract")
    /\ \E a \in {PubmedAbstract(upstream["abstract"].body)} :
          /\ a.ok
          /\ abstr' = a.value
          /\ response' = [count |-> srch.count,
                          records |-> MergeRecords(summ.records, a.value.records),
                          query |-> query]
    /\ attempts' = [attempts EXCEPT !["abstract"] = @ + 1]
    /\ last' = [last EXCEPT !["abstract"] = "ok"]
    /\ pc' = "done"
    /\ UNCHANGED <<upstream, query, calls, srch, ids, summ, failure>>

Next ==
    \/ Begin
    \/ Retry("search", "esearch")
    \/ Exhausted("search", "esearch")
    \/ SearchOkEmpty
    \/ SearchOkIds
    \/ Retry("summary", "esummary")
    \/ Exhausted("summary", "esummary")
    \/ SummaryOk
    \/ Retry("abstract", "efetch")
    \/ Exhausted("abstract", "efetch")
    \/ AbstractNotFound
    \/ AbstractOk

\* ------------------------------------------------------- specifications
Queries == {"aspirin", "influenza[mesh]"}

SmallSearchBodies ==
    {SearchBody(<< >>, <<0>>), SearchBody(<< >>, <<4, 2>>), SearchBody(<<"1">>, <<1>>),
     SearchBody(<<"2", "1", "3">>, <<1, 7>>), [esearchresult |-> [idlist |-> <<"3">>]],
     [header |-> "x"]}
SmallSummaryBodies ==
    {SummaryBody(<<"1">>), SummaryBody(<<"1", "2", "3">>), SummaryBody(<< >>),
     [header |-> "x"]}
SmallPayloads ==
    {ArtPlain("1"), ArtPlain("1") \o ArtStructured("3"), Envelope, << >>, Unclosed}

Init == InitWith(SmallSearchBodies, SmallSummaryBodies, SmallPayloads, FailPlans, Queries)
Spec == Init /\ [][Next]_vars

\* retry runs: every failure plan against a few answers; a started attempt ends
\* and a returned answer is processed
InitRetry ==
    InitWith({SearchBody(<< >>, <<4, 2>>), SearchBody(<<"2", "1", "3">>, <<1, 7>>)},
             {SummaryBody(<<"1", "2", "3">>)},
             {ArtPlain("1") \o ArtStructured("3"), Envelope}, FailPlans, {"aspirin"})
FairSpec == InitRetry /\ [][Next]_vars /\ WF_vars(Next)

\* merge runs: every uid list against every payload of at most MaxChunks articles
MergeBlocks ==
    {ArtPlain("1"), ArtOther("1"), ArtPlain("2"), ArtStructured("3"), ArtNoAbstract("2"),
     ArtNoPmid}
InitMerge ==
    \/ InitWith({SearchBody(<<"1", "2", "3">>, <<3>>)},
                {SummaryBody(u) : u \in SeqsUpTo(Ids, MaxUids)},
                Payloads(MergeBlocks, MaxChunks), {NoFailures}, {"aspirin"})
    \/ InitWith(SmallSearchBodies, {SummaryBody(<<"3", "1">>)},
                {ArtPlain("1") \o ArtPlain("2")}, FewFailPlans, {"aspirin"})
SpecMerge == InitMerge /\ [][Next]_vars

\* parse runs: payloads of at most MaxParseChunks blocks, well formed or not
ParseBlocks ==
    {ArtPlain("1"), ArtStructured("3"), ArtNoAbstract("2"), ArtNoPmid, ArtNoTitle("2"),
     ArtEmpty, ArtBrokenPmid, ArtUnclosedTitle("1"), Unclosed, Envelope}
InitParse ==
    \/ InitWith({SearchBody(<<"1", "2", "3">>, <<3>>)}, {SummaryBody(<<"1", "2", "3">>)},
                Payloads(ParseBlocks, MaxParseChunks), {NoFailures}, {"aspirin"})
    \/ InitWith(SmallSearchBodies, {SummaryBody(<<"3", "1">>)},
                {ArtPlain("1") \o ArtPlain("2")}, FewFailPlans, {"aspirin"})
SpecParse == InitParse /\ [][Next]_vars

\* ================================================================ claims
Terminal == pc \in {"done", "failed"}
SearchGaveIds == srch # Unset /\ srch.pmids # << >>
SearchExhausts == upstream["search"].fails >= MaxAttempts
SummaryExhausts == upstream["summary"].fails >= MaxAttempts
AbstractExhausts == upstream["abstract"].fails >= MaxAttempts
TotalAttempts == attempts["search"] + attempts["summary"] + attempts["abstract"]
NoDownstreamCalls ==
    /\ calls["summary"] = 0 /\ attempts["summary"] = 0
    /\ calls["abstract"] = 0 /\ attempts["abstract"] = 0
RetryErrorOf(e) == [type |-> "RetryError", step |-> e, cause |-> last[e]]

\* C1: when Search returns no ids the request has completed with records = [] and
\* Search's count, and no Summary or Abstract call and no esummary/efetch request
\* was made.
C1_EmptySearchShortCircuits ==
    (srch # Unset /\ srch.pmids = << >>) =>
        /\ pc = "done"
        /\ failure = NoFailure
        /\ response.records = << >>
        /\ response.count = srch.count
        /\ NoDownstreamCalls
        /\ summ = Unset /\ abstr = Unset

C1_Witness ==
    /\ pc = "done" /\ srch # Unset /\ srch.pmids = << >> /\ srch.count = 42
    /\ response.records = << >> /\ response.count = 42

\* C2: when every esearch attempt fails, the request ends in failure with Search's
\* failure, no response, and Summary and Abstract are never called or requested.
C2_SearchFailureAborts ==
    /\ SearchExhausts =>
          /\ pc \in {"start", "esearch", "failed"}
          /\ NoDownstreamCalls
          /\ response = Unset
    /\ (attempts["search"] >= MaxAttempts /\ last["search"] \in JsonErrors) =>
          /\ pc = "failed"
          /\ failure = RetryErrorOf("search")
          /\ NoDownstreamCalls
          /\ response = Unset

C2_Witness ==
    /\ pc = "failed" /\ failure.type = "RetryError" /\ failure.step = "search"
    /\ attempts["search"] = MaxAttempts

\* C3: with ids from Search, a failing Summary step or a failing Abstract step
\* (the 404 of an efetch payload without articles included) ends the request with
\* exactly that failure and without any response; the 404 is not a RetryError.
C3_StepFailurePropagates ==
    /\ pc = "failed" => response = Unset
    /\ (Terminal /\ SearchGaveIds) =>
          /\ SummaryExhausts =>
                pc = "failed" /\ failure = RetryErrorOf("summary")
          /\ (~SummaryExhausts /\ AbstractExhausts) =>
                pc = "failed" /\ failure = RetryErrorOf("abstract")
          /\ (~SummaryExhausts /\ ~AbstractExhausts
                  /\ Segments(upstream["abstract"].body) = << >>) =>
                /\ pc = "failed"
                /\ failure = [type |-> "HTTPException", status |-> 404, step |-> "abstract"]
                /\ failure.type # "RetryError"

C3_Witness ==
    /\ pc = "failed" /\ failure.type = "HTTPException" /\ failure.status = 404
    /\ summ # Unset /\ summ.records # << >> /\ response = Unset

\* C4: a successful merge has one entry per SummaryRecord, in Summary's order, each
\* with all fields of its SummaryRecord unchanged plus the field abstract.
C4_MergeFollowsSummary ==
    (pc = "done" /\ SearchGaveIds) =>
        /\ Len(response.records) = Len(summ.records)
        /\ \A i \in DOMAIN summ.records :
              /\ DOMAIN response.records[i] = DOMAIN summ.records[i] \cup {"abstract"}
              /\ \A k \in DOMAIN summ.records[i] :
                    response.records[i][k] = summ.records[i][k]

C4_Witness ==
    /\ pc = "done" /\ SearchGaveIds
    /\ Len(summ.records) = 3 /\ Len(abstr.records) = 2
    /\ summ.records[1].pmid = "3" /\ summ.records[2].pmid = "1" /\ summ.records[3].pmid = "2"
    /\ abstr.records[1].pmid = "1" /\ abstr.records[2].pmid = "3"
    /\ response.records[1].pmid = "3" /\ response.records[3].pmid = "2"

\* C5: the merged abstract of a SummaryRecord is the abstract of the last
\* AbstractRecord with the same id, and the empty string when there is none.
C5_AbstractJoin ==
    (pc = "done" /\ SearchGaveIds) =>
        /\ Len(response.records) = Len(summ.records)
        /\ \A i \in DOMAIN summ.records :
              LET same == {j \in DOMAIN abstr.records :
                              abstr.records[j].pmid = summ.records[i].pmid}
              IN IF same = {}
                 THEN response.records[i].abstract = EmptyText
                 ELSE \E j \in same :
                        /\ \A m \in same : m <= j
                        /\ response.records[i].abstract = abstr.records[j].abstract

C5_Witness ==
    /\ pc = "done" /\ SearchGaveIds /\ Len(summ.records) = 3 /\ Len(abstr.records) = 2
    /\ summ.records[1].pmid = "1" /\ summ.records[2].pmid = "2" /\ summ.records[3].pmid = "3"
    /\ abstr.records[1].pmid = "1" /\ abstr.records[2].pmid = "3"
    /\ response.records[1].abstract # EmptyText
    /\ response.records[2].abstract = EmptyText
    /\ response.records[3].abstract # EmptyText

\* uids listed by the esummary body
ListedUids == Get(Get(upstream["summary"].body, "result", << >>), "uids", << >>)

\* C6 as stated: a successful request with ids has as many records as Search
\* returned ids.
C6_RecordCountEqualsSearchIds ==
    (pc = "done" /\ SearchGaveIds) => Len(response.records) = Len(srch.pmids)

\* C6 amended: a successful request with ids has as many records as the esummary
\* answer lists uids.
C6_RecordCountEqualsListedUids ==
    (pc = "done" /\ SearchGaveIds) => Len(response.records) = Len(ListedUids)

C6_Witness ==
    /\ pc = "done" /\ SearchGaveIds /\ Len(srch.pmids) = 3
    /\ ListedUids = <<"3", "2">> /\ Len(response.records) = 2

\* C7: every successful response has exactly the keys count, records and query,
\* count being Search's count and query the caller's query.
C7_ResponseShape ==
    pc = "done" =>
        /\ DOMAIN response = {"count", "records", "query"}
        /\ response.count = srch.count
        /\ response.query = query

\* marker tests on one record segment
HasMarker(seg, opens, close) ==
    \E i, j \in DOMAIN seg : i < j /\ seg[i] \in opens /\ seg[j] = close

\* C8: once efetch has answered, the extractor fails with 404 exactly when the
\* payload has no record segment; otherwise it returns one record per segment, in
\* order, a missing marker emptying only its own field.
C8_NotFoundIffNoSegments ==
    last["abstract"] = "ok" =>
        LET segs == Segments(upstream["abstract"].body)
        IN /\ (pc = "failed" /\ failure.type = "HTTPException" /\ failure.status = 404)
                  <=> (segs = << >>)
           /\ segs # << >> =>
                 /\ pc = "done"
                 /\ Len(abstr.records) = Len(segs)
                 /\ \A i \in DOMAIN segs :
                       LET rec == abstr.records[i]
                       IN /\ rec.pmid = SearchPmid(segs[i])
                          /\ rec.title =
                                Strip(StripTags(Concat(SearchFirst(segs[i], {TitleOpen}, TitleClose))))
                          /\ rec.abstract =
                                Strip(StripTags(Concat(FindAll(segs[i], AbstractOpens, AbstractClose))))
                          /\ ~HasMarker(segs[i], {TitleOpen}, TitleClose) => rec.title = EmptyText
                          /\ ~HasMarker(segs[i], AbstractOpens, AbstractClose)
                                => rec.abstract = EmptyText
                          /\ ~HasMarker(segs[i], PmidOpens, PmidClose) => rec.pmid = ""

C8_Witness ==
    /\ pc = "done" /\ SearchGaveIds /\ last["abstract"] = "ok" /\ Len(abstr.records) = 3
    /\ abstr.records[1] = [pmid |-> "", title |-> <<"Title">>, abstract |-> <<"Anon">>]
    /\ abstr.records[2] = [pmid |-> "2", title |-> EmptyText, abstract |-> <<"Plain", "2">>]
    /\ abstr.records[3] = [pmid |-> "3", title |-> <<"Title">>, abstract |-> <<"Bg", "Res">>]

\* what running Abstract before Summary, or both at once, yields from the same
\* upstream answers: each step's outcome is a function of its own answer alone
SummaryAlone ==
    IF SummaryExhausts THEN [ok |-> FALSE]
    ELSE [ok |-> TRUE, value |-> PubmedSummary(upstream["summary"].body)]
AbstractAlone ==
    IF AbstractExhausts THEN [ok |-> FALSE]
    ELSE PubmedAbstract(upstream["abstract"].body)

RetriesOnlyAfter(errors) ==
    \A e \in Endpoints :
        attempts'[e] # attempts[e] =>
            /\ attempts'[e] = attempts[e] + 1
            /\ attempts[e] = 0 <=> last[e] = "none"
            /\ last[e] \in {"none"} \cup (errors \cap AttemptErrors(e))

BoundedAttempts ==
    /\ \A e \in Endpoints :
          /\ attempts[e] <= MaxAttempts
          /\ calls[e] <= 1
          /\ (attempts[e] = MaxAttempts /\ last[e] # "ok") =>
                (pc = "failed" /\ failure = RetryErrorOf(e))
    /\ TotalAttempts <= 3 * MaxAttempts

\* C10 as stated: at most 3 attempts per call, a further attempt only after a
\* transport error or a non-success status and none after a success, the third
\* failure propagates, each step is invoked at most once, at most 9 attempts in
\* all, and the request terminates.
C10_RetryAfterTransportOrStatus ==
    /\ []BoundedAttempts
    /\ [][RetriesOnlyAfter({"transport", "status"})]_vars
    /\ <>Terminal

\* C10 amended: as stated, a further attempt following any failed attempt: a
\* transport error, a non-success status or, in _get_json, a body that does not
\* decode.
C10_BoundedRetries ==
    /\ []BoundedAttempts
    /\ [][RetriesOnlyAfter({"transport", "status", "decode"})]_vars
    /\ <>Terminal

C10_Witness ==
    /\ pc = "failed" /\ TotalAttempts = 3 * MaxAttempts
    /\ last["search"] = "ok" /\ last["summary"] = "ok" /\ last["abstract"] = "status"
====
